---------------------------- MODULE Spec2Model ----------------------------
(***************************************************************************)
(* A model of adb2re.py: the Adb2re wrapper that accumulates a request     *)
(* list and generation options, renders them into the strings the ADB2RE   *)
(* stored procedure expects, calls the procedure, stores the DDL rows and  *)
(* the report, and offers text assertions over both.                       *)
(*                                                                         *)
(* Python strings are TLA+ strings; `+` is \o, str.count(x) > 0 and        *)
(* str.find(x) >= 0 are Contains, str.split is Split.                      *)
(***************************************************************************)
EXTENDS Integers, Sequences, FiniteSets, TLC

(***************************************************************************)
(* Bounds of the model.                                                    *)
(***************************************************************************)
MaxAdds == 2
MaxConnections == 2
MaxChanges == 1

(***************************************************************************)
(* Values of the configuration file (from libs.aoc.utility import * ).     *)
(***************************************************************************)
LPAR == "RS22"
DB2_SUBSYSTEM_ID == "DC1A"
TSO_USER_ID == "TS5813"
ACCEPT_FL == "V12R1M500"
DB2_VERSION == "12"
LPAR_SSID == [DC1A |-> "3710", DD1A |-> "3720"]

(***************************************************************************)
(* String functions of Python.                                             *)
(***************************************************************************)
\* str.count(sub) > 0 (and str.find(sub) >= 0); the empty string occurs in
\* every string.
Contains(s, sub) ==
    \E i \in 1..(Len(s) - Len(sub) + 1) : SubSeq(s, i, i + Len(sub) - 1) = sub

\* index (1-based) of the first occurrence of sub in s, 0 when there is none
Find(s, sub) ==
    IF Contains(s, sub)
    THEN CHOOSE i \in 1..(Len(s) - Len(sub) + 1) :
            /\ SubSeq(s, i, i + Len(sub) - 1) = sub
            /\ \A j \in 1..(i - 1) : SubSeq(s, j, j + Len(sub) - 1) # sub
    ELSE 0

\* str.split(term) for a non-empty term: the segments between the
\* occurrences of term, left to right, the last one included
RECURSIVE Split(_, _)
Split(s, term) ==
    LET i == Find(s, term) IN
    IF i = 0 THEN <<s>>
    ELSE <<SubSeq(s, 1, i - 1)>> \o Split(SubSeq(s, i + Len(term), Len(s)), term)

\* "\n".join(lines)
RECURSIVE Join(_)
Join(lines) ==
    IF lines = <<>> THEN ""
    ELSE IF Len(lines) = 1 THEN lines[1]
    ELSE lines[1] \o "\n" \o Join(Tail(lines))

\* str(n) for a natural number
Digit(d) == SubSeq("0123456789", d + 1, d + 1)
RECURSIVE Str(_)
Str(n) == IF n < 10 THEN Digit(n) ELSE Str(n \div 10) \o Digit(n % 10)

(***************************************************************************)
(* The class attributes and their defaults.                                *)
(***************************************************************************)
GenOptions ==
    <<"GENSG", "GENDB", "GENTS", "GENTABLE", "GENVIEW", "GENINDEX", "GENSYN",
      "GENALIAS", "GENUDT", "GENUDF", "GENSTP", "GENSEQ", "GENVAR", "GENLABEL",
      "GENCOMM", "GENRELS", "GENTRIG", "GENTRUST", "GENROLE", "GENMASK",
      "GENPERM", "GENSEQAL">>

GrantOptions ==
    <<"GRANTSG", "GRANTDB", "GRANTTS", "GRANTTAB", "GRANTVW", "GRANTSCH",
      "GRANTUDT", "GRANTUDF", "GRANTSTP", "GRANTSEQ", "GRANTVAR">>

StatsOptions ==
    <<"SYSCOLDIST", "SYSCOLDISTSTATS", "SYSCOLSTATS", "SYSCOLUMNS", "SYSINDEX",
      "SYSIXPART", "SYSIXSTATS", "SYSLOBSTATS", "SYSTBPART", "SYSTABLES",
      "SYSTABLESPACE", "SYSIXPSTATS", "SYSTSPSTATS", "SYSROUTINES",
      "SYSKEYTGTDIST", "SYSKEYTGTDISTSTATS", "SYSKEYTARGETSTATS">>

NewOptions == <<"NEWSQLID", "NEWGRANTOR", "NEWDB", "NEWTSSG", "NEWIXSG">>

SqlOptional == <<"SQL_DSNAME", "SQL_MEMBER", "SQL_UNIT", "SQL_VOLSER">>
RptOptional == <<"RPT_MEMBER", "RPT_UNIT", "RPT_VOLSER">>

Range(f) == {f[i] : i \in DOMAIN f}

\* the options __build_parameter_list renders only when changed
OptionalOptions ==
    {"DB2ALOC", "DB2SERV", "DB2AUTH", "ACCEPT_FL", "ACTVCNTL",
     "CATALOGSTATISTICS", "TCATQUAL", "TGTFL", "PENDCHGS", "SPCALLOC",
     "TGTDB2", "DEFAULTS", "COMMITFR", "RUNSQLID", "SQLCMTS"}
    \cup Range(GenOptions) \cup Range(GrantOptions) \cup Range(StatsOptions)
    \cup Range(NewOptions)

OutputFields ==
    {"SQL_OUTFLAG", "RPT_OUTFLAG", "RPT_DSNAME"} \cup Range(SqlOptional)
    \cup Range(RptOptional)

Attributes ==
    {"DB2REL_CONFIG", "PORT", "DB2SYS", "DB2REL"} \cup OptionalOptions
    \cup OutputFields

\* DB2REL_CONFIG of the class body: a two-character version gets '15'
Db2RelConfig(version) == IF Len(version) = 2 THEN version \o "15" ELSE version

\* the value each attribute has in the class body
ClassDefault(a, version) ==
    CASE a \in {"DB2REL_CONFIG", "DB2REL", "TGTDB2"} -> Db2RelConfig(version)
      [] a = "PORT" -> LPAR_SSID[DB2_SUBSYSTEM_ID]
      [] a = "DB2SYS" -> DB2_SUBSYSTEM_ID
      [] a = "DB2SERV" -> LPAR \o DB2_SUBSYSTEM_ID
      [] a = "DB2AUTH" -> TSO_USER_ID
      [] a \in {"ACCEPT_FL", "TGTFL"} -> ACCEPT_FL
      [] a \in Range(GenOptions) \cup Range(GrantOptions) -> "N"
      [] a \in {"ACTVCNTL", "CATALOGSTATISTICS", "SQLCMTS"} -> "N"
      [] a \in Range(StatsOptions) \cup {"PENDCHGS"} -> "Y"
      [] a = "SPCALLOC" -> "DEFINED"
      [] a = "DEFAULTS" -> "K"
      [] a = "COMMITFR" -> "A"
      [] a = "SQL_OUTFLAG" -> "RS"
      [] a = "RPT_OUTFLAG" -> "BO"
      [] a = "RPT_DSNAME" -> TSO_USER_ID \o ".REPORT.TEMP"
      [] OTHER -> ""

VARIABLES
    attrs,                  \* the option and output attributes of the instance
    same,                   \* attributes whose value is the very object of the default
    parameter_list,
    request_list,
    sql_output_list,
    rpt_output_list,
    ddl_as_array,
    ddl_as_string,
    executed_at_least_once,
    saved_report,
    connections,            \* connections opened by jaydebeapi.connect
    procedure_calls,        \* number of ADB2RE calls issued
    added,                  \* the add_* calls made so far, in order
    changes,                \* number of attribute assignments made by the caller
    completed,              \* some execute call has finished its fetch loop
    last,                   \* the last operation and how it ended
    results,                \* what the last execute call that finished stored
    own_ddl_as_array,       \* the instance has a __ddl_as_array of its own
    class_ddl_as_array,     \* the list Adb2re.__ddl_as_array of the class
    other                   \* a second instance of the class

vars ==
    <<attrs, same, parameter_list, request_list, sql_output_list,
      rpt_output_list, ddl_as_array, ddl_as_string, executed_at_least_once,
      saved_report, connections, procedure_calls, added, changes, completed,
      last, results, own_ddl_as_array, class_ddl_as_array, other>>

\* the instance's own state, without the model's bookkeeping
instance ==
    <<attrs, same, parameter_list, request_list, sql_output_list,
      rpt_output_list, ddl_as_array, ddl_as_string, executed_at_least_once,
      saved_report>>

\* the instance and what the model records about it, as one record
Self ==
    [attrs |-> attrs, same |-> same, parameter_list |-> parameter_list,
     request_list |-> request_list, sql_output_list |-> sql_output_list,
     rpt_output_list |-> rpt_output_list, ddl_as_array |-> ddl_as_array,
     ddl_as_string |-> ddl_as_string,
     executed_at_least_once |-> executed_at_least_once,
     saved_report |-> saved_report, connections |-> connections,
     procedure_calls |-> procedure_calls, added |-> added,
     changes |-> changes, completed |-> completed, results |-> results,
     own_ddl_as_array |-> own_ddl_as_array,
     class_ddl_as_array |-> class_ddl_as_array]

Is(self) ==
    /\ attrs = self.attrs
    /\ same = self.same
    /\ parameter_list = self.parameter_list
    /\ request_list = self.request_list
    /\ sql_output_list = self.sql_output_list
    /\ rpt_output_list = self.rpt_output_list
    /\ ddl_as_array = self.ddl_as_array
    /\ ddl_as_string = self.ddl_as_string
    /\ executed_at_least_once = self.executed_at_least_once
    /\ saved_report = self.saved_report
    /\ connections = self.connections
    /\ procedure_calls = self.procedure_calls
    /\ added = self.added
    /\ changes = self.changes
    /\ completed = self.completed
    /\ results = self.results
    /\ own_ddl_as_array = self.own_ddl_as_array
    /\ class_ddl_as_array = self.class_ddl_as_array

Becomes(self) ==
    /\ attrs' = self.attrs
    /\ same' = self.same
    /\ parameter_list' = self.parameter_list
    /\ request_list' = self.request_list
    /\ sql_output_list' = self.sql_output_list
    /\ rpt_output_list' = self.rpt_output_list
    /\ ddl_as_array' = self.ddl_as_array
    /\ ddl_as_string' = self.ddl_as_string
    /\ executed_at_least_once' = self.executed_at_least_once
    /\ saved_report' = self.saved_report
    /\ connections' = self.connections
    /\ procedure_calls' = self.procedure_calls
    /\ added' = self.added
    /\ changes' = self.changes
    /\ completed' = self.completed
    /\ results' = self.results
    /\ own_ddl_as_array' = self.own_ddl_as_array
    /\ class_ddl_as_array' = self.class_ddl_as_array
    /\ other' = other

\* how an operation ended: returning value, or raising error; for execute,
\* outcome names the statement it ended at
Returned(op, value) ==
    [op |-> op, raised |-> FALSE, error |-> "", value |-> value, outcome |-> ""]
Raised(op, error) ==
    [op |-> op, raised |-> TRUE, error |-> error, value |-> "", outcome |-> ""]

\* A fresh instance reads every attribute from the class.
Fresh ==
    [attrs |-> [a \in Attributes |-> ClassDefault(a, DB2_VERSION)],
     same |-> {"DB2AUTH", "ACCEPT_FL", "TGTFL", "SPCALLOC", "TGTDB2"},
     parameter_list |-> "", request_list |-> "", sql_output_list |-> "",
     rpt_output_list |-> "", ddl_as_array |-> <<>>, ddl_as_string |-> "",
     executed_at_least_once |-> FALSE, saved_report |-> "",
     connections |-> 0, procedure_calls |-> 0, added |-> <<>>,
     changes |-> 0, completed |-> FALSE,
     results |-> [ddl_as_array |-> <<>>, ddl_as_string |-> "",
                  saved_report |-> ""],
     own_ddl_as_array |-> FALSE, class_ddl_as_array |-> <<>>]

\* self.__ddl_as_array: the list of the instance when it has one, the list
\* of the class otherwise
DdlAsArray(self) ==
    IF self.own_ddl_as_array THEN self.ddl_as_array
    ELSE self.class_ddl_as_array

Init == Is(Fresh) /\ other = Fresh /\ last = Returned("__init__", "")

(***************************************************************************)
(* __build_parameter_list and __build_output_lists.                        *)
(***************************************************************************)
\* Python's `value is not default` on strings: objects of different value
\* are never identical; the empty string and the one-character strings are
\* unique objects; longer strings of equal value are identical only when
\* they are the same object.
IsNot(value, default, identical) ==
    IF value # default THEN TRUE
    ELSE IF Len(default) <= 1 THEN FALSE
    ELSE ~identical

Opt(attr, key, default) == [attr |-> attr, key |-> key, default |-> default]

\* The tests of __build_parameter_list in their order: the attribute read,
\* the name it is rendered under and the value it is compared with (for
\* TGTDB2, the attribute that holds that value).
ParameterTests ==
    <<Opt("DB2ALOC", "DB2ALOC", ""),
      Opt("DB2SERV", "DB2SERV", LPAR \o DB2_SUBSYSTEM_ID),
      Opt("DB2AUTH", "DB2AUTH", TSO_USER_ID)>>
    \o [i \in 1..Len(GenOptions) |-> Opt(GenOptions[i], GenOptions[i], "N")]
    \o [i \in 1..Len(GrantOptions) |-> Opt(GrantOptions[i], GrantOptions[i], "N")]
    \o <<Opt("ACCEPT_FL", "ACCEPT_FL", ACCEPT_FL),
         Opt("ACTVCNTL", "ACTVCNTL", "N"),
         Opt("CATALOGSTATISTICS", "CATALOGSTATISTICS", "N"),
         Opt("TCATQUAL", "TCATQUAL", ""),
         Opt("TGTFL", "TGTFL", ACCEPT_FL),
         Opt("SYSCOLDIST", "GENSTATS.SYSCOLDIST", "Y"),
         Opt("SYSCOLDISTSTATS", "GENSTATS.SYSCOLDISTSTATS", "Y"),
         Opt("SYSCOLSTATS", "GENSTATS.SYSCOLSTATS", "Y"),
         Opt("SYSCOLUMNS", "GENSTATS.SYSCOLUMNS", "Y"),
         Opt("SYSINDEX", "GENSTATS.SYSINDEXES", "Y"),
         Opt("SYSIXPART", "GENSTATS.SYSINDEXPART", "Y"),
         Opt("SYSIXSTATS", "GENSTATS.SYSINDEXSTATS", "Y"),
         Opt("SYSLOBSTATS", "GENSTATS.SYSLOBSTATS", "Y"),
         Opt("SYSTBPART", "GENSTATS.SYSTABLEPART", "Y"),
         Opt("SYSTABLES", "GENSTATS.SYSTABLES", "Y"),
         Opt("SYSTABLESPACE", "GENSTATS.SYSTABLESPACE", "Y"),
         Opt("SYSIXPSTATS", "GENSTATS.SYSINDEXSPACESTATS", "Y"),
         Opt("SYSTSPSTATS", "GENSTATS.SYSTABLESPACESTATS", "Y"),
         Opt("SYSKEYTGTDISTSTATS", "GENSTATS.SYSKEYTGTDISTSTATS", "Y"),
         Opt("SYSKEYTARGETSTATS", "GENSTATS.SYSKEYTARGETSTATS", "Y"),
         Opt("SYSKEYTGTDIST", "GENSTATS.SYSKEYTGTDIST", "Y"),
         Opt("SYSROUTINES", "GENSTATS.SYSROUTINES", "Y"),
         Opt("NEWGRANTOR", "NEWGRANTOR", ""),
         Opt("NEWDB", "NEWDB", ""),
         Opt("NEWTSSG", "NEWTSSG", ""),
         Opt("NEWIXSG", "NEWIXSG", ""),
         Opt("NEWSQLID", "NEWSQLID", ""),
         Opt("PENDCHGS", "PENDCHGS", "Y"),
         Opt("SPCALLOC", "SPCALLOC", "DEFINED"),
         Opt("TGTDB2", "TGTDB2", "DB2REL_CONFIG"),
         Opt("DEFAULTS", "DEFAULTS", "K"),
         Opt("COMMITFR", "COMMITFR", "A"),
         Opt("RUNSQLID", "RUNSQLID", ""),
         Opt("SQLCMTS", "SQLCMTS", "")>>

\* ,KEY='value'
Field(key, value) == "," \o key \o "='" \o value \o "'"

\* the value the i-th test compares the attribute with
ComparedWith(i, at) ==
    IF ParameterTests[i].attr = "TGTDB2" THEN at["DB2REL_CONFIG"]
    ELSE ParameterTests[i].default

\* the strings of a sequence, from the i-th on, one after the other
RECURSIVE Concat(_, _)
Concat(strings, i) ==
    IF i > Len(strings) THEN "" ELSE strings[i] \o Concat(strings, i + 1)

\* what each test appends to parameter_list, in the order of the tests
ChangedFields(at, sm) ==
    [i \in DOMAIN ParameterTests |->
        IF IsNot(at[ParameterTests[i].attr], ComparedWith(i, at),
                 ParameterTests[i].attr \in sm)
        THEN Field(ParameterTests[i].key, at[ParameterTests[i].attr])
        ELSE ""]

\* the parameter_list __build_parameter_list stores
BuildParameterList(at, sm) ==
    "DB2SYS='" \o at["DB2SYS"] \o "',DB2REL='" \o at["DB2REL"] \o "'"
    \o Concat(ChangedFields(at, sm), 1)
    \o ";"

\* what the tests `if ... is not ''` of an output list append, in order
ProvidedFields(names, at) ==
    [i \in DOMAIN names |->
        IF IsNot(at[names[i]], "", FALSE) THEN Field(names[i], at[names[i]])
        ELSE ""]

\* the __sql_output_list __build_output_lists stores
BuildSqlOutputList(at) ==
    "SQL_OUTFLAG='" \o at["SQL_OUTFLAG"] \o "'"
    \o Concat(ProvidedFields(SqlOptional, at), 1) \o ";"

\* the __rpt_output_list __build_output_lists stores
BuildRptOutputList(at) ==
    "RPT_OUTFLAG='" \o at["RPT_OUTFLAG"] \o "'"
    \o ",RPT_DSNAME='" \o at["RPT_DSNAME"] \o "'"
    \o Concat(ProvidedFields(RptOptional, at), 1) \o ";"

(***************************************************************************)
(* assert_text_in_report and assert_text_between_terminators as functions  *)
(* of the state they read.                                                 *)
(***************************************************************************)
\* position in text of the first line the loop of assert_text_in_report
\* raises on, 0 when it raises on none
RECURSIVE FirstOffending(_, _, _, _)
FirstOffending(report, text, i, positive_test) ==
    IF i > Len(text) THEN 0
    ELSE IF positive_test /\ ~Contains(report, text[i]) THEN i
    ELSE IF ~positive_test /\ Contains(report, text[i]) THEN i
    ELSE FirstOffending(report, text, i + 1, positive_test)

\* how assert_text_in_report(text, positive_test) ends, called as op
ReportAssertion(op, at, report, text, positive_test) ==
    IF ~IsNot(at["RPT_DSNAME"], "", FALSE)
    THEN Raised(op, "adb2re.py: RPT_DSNAME must be set before calling execute()")
    ELSE LET i == FirstOffending(report, text, 1, positive_test) IN
         IF i = 0 THEN Returned(op, "")
         ELSE IF positive_test
         THEN Raised(op, "adb2re.py Failed to find line '" \o text[i]
                         \o "' in report. Full report:\n\n" \o report)
         ELSE Raised(op, "adb2re.py Unexpectedly found line '" \o text[i]
                         \o "' in report. Full report:\n\n" \o report)

\* an item missing after the first one was found is let through
ItemStepLenient(stmt, item, found_first_one) ==
    IF Contains(stmt, item) \/ found_first_one THEN "found" ELSE "break"
\* What the loop does with one item: it goes on when the statement has the
\* item, raises when it has not but had the first one, breaks otherwise.
ItemStep(stmt, item, found_first_one) ==
    IF Contains(stmt, item) THEN "found"
    ELSE IF found_first_one THEN "raise"
    ELSE "break"

\* The loop over the items of a sublist for one statement: whether the first
\* item was found, and the count at which the loop raised (0: it did not).
RECURSIVE WalkItems(_, _, _, _)
WalkItems(stmt, sublist, count, found_first_one) ==
    IF count > Len(sublist)
    THEN [found_first_one |-> found_first_one, failed |-> 0]
    ELSE LET step == ItemStep(stmt, sublist[count], found_first_one) IN
         IF step = "found" THEN WalkItems(stmt, sublist, count + 1, TRUE)
         ELSE IF step = "raise"
         THEN [found_first_one |-> TRUE, failed |-> count]
         ELSE [found_first_one |-> FALSE, failed |-> 0]

\* the position counted from 0
MismatchErrorFromZero(sublist, count, stmt, term, ddl) ==
    "adb2re.py: Failed on sub-checklist:\n" \o Join(sublist)
    \o "\nCould not find item#: " \o Str(count - 1) \o ", string value '"
    \o sublist[count] \o "' in this statement:\n" \o stmt \o term
    \o "\nFull DDL:\n" \o ddl

MismatchError(sublist, count, stmt, term, ddl) ==
    "adb2re.py: Failed on sub-checklist:\n" \o Join(sublist)
    \o "\nCould not find item#: " \o Str(count) \o ", string value '"
    \o sublist[count] \o "' in this statement:\n" \o stmt \o term
    \o "\nFull DDL:\n" \o ddl

NoHitError(sublist) ==
    "adb2re.py: Could not find any items in DDL from sub-checklist:\n"
    \o Join(sublist)

\* the terminator not put back
StatementAsSplit(segment, term) == segment
\* stmt += term
Statement(segment, term) == segment \o term

\* The loop over the statements for one sublist, from the j-th statement on:
\* the error it raises, "" when the sublist passes.
RECURSIVE ScanStatements(_, _, _, _, _)
ScanStatements(split_ddl, j, sublist, term, ddl) ==
    IF j > Len(split_ddl) THEN NoHitError(sublist)
    ELSE LET stmt == Statement(split_ddl[j], term)
             w == WalkItems(stmt, sublist, 1, FALSE)
         IN IF w.failed > 0 THEN MismatchError(sublist, w.failed, stmt, term, ddl)
            ELSE IF w.found_first_one THEN ""
            ELSE ScanStatements(split_ddl, j + 1, sublist, term, ddl)

\* The loop over the sublists from the k-th on: the first error raised.
RECURSIVE ScanChecklist(_, _, _, _, _)
ScanChecklist(checklist, k, split_ddl, term, ddl) ==
    IF k > Len(checklist) THEN ""
    ELSE LET e == ScanStatements(split_ddl, 1, checklist[k], term, ddl) IN
         IF e # "" THEN e
         ELSE ScanChecklist(checklist, k + 1, split_ddl, term, ddl)

NotExecutedDdl == "adb2re.py: Call execute() before retrieving DDL"
NotExecutedReport == "adb2re.py: Call execute() before retrieving report"
NoTerminator(term, ddl) ==
    "adb2re.py: Could not find terminator '" \o term \o "' in DDL:\n" \o ddl

\* the search for the terminator left out
TerminatorFoundAnyway(ddl, term) == FALSE
\* self.get_ddl_as_string().find(term) < 0
TerminatorMissing(ddl, term) == ~Contains(ddl, term)

\* how assert_text_between_terminators(checklist, term) ends, for a
\* terminator of at least one character
TextBetweenTerminators(executed, ddl, checklist, term) ==
    LET op == "assert_text_between_terminators" IN
    IF ~executed THEN Raised(op, NotExecutedDdl)
    ELSE IF TerminatorMissing(ddl, term) THEN Raised(op, NoTerminator(term, ddl))
    ELSE LET e == ScanChecklist(checklist, 1, Split(ddl, term), term, ddl) IN
         IF e = "" THEN Returned(op, "") ELSE Raised(op, e)

(***************************************************************************)
(* execute                                                                 *)
(***************************************************************************)
Banner == "ADB2GEN - Create DDL from catalog info"
\* the check for the spaced form left out
ForbiddenUnspaced == <<"SQLCODE=-805">>
Forbidden == <<"SQLCODE=-805", "SQLCODE = -805">>

EmptyRequestList ==
    "adb2re.py: request_list cannot be empty; use functions like add_table to build the list"

\* self.RPT_DSNAME is not ''
ReportConfigured(at) == IsNot(at["RPT_DSNAME"], "", FALSE)

\* the two assertions execute makes on the report it has just stored
BannerCheck(at, report) ==
    ReportAssertion("execute", at, report, <<Banner>>, TRUE)
SqlcodeCheck(at, report) ==
    ReportAssertion("execute", at, report, Forbidden, FALSE)

\* the comparison off by one
RequestListIsEmptyNever(self) == Len(self.request_list) < 0
\* len(self.request_list) < 1
RequestListIsEmpty(self) == Len(self.request_list) < 1

\* Where execute(ssid) ends when the collaborators behave as env says:
\* env.fail names the call that raises (connect, call, read, fetch, close or
\* none), env.report is the text read_ds returns, env.rows the second
\* column of the rows fetchall returns.
ExecuteOutcome(self, ssid, env) ==
    IF RequestListIsEmpty(self) THEN "empty"
    ELSE IF ssid \notin DOMAIN LPAR_SSID THEN "ssid"
    ELSE IF env.fail = "connect" THEN "connect"
    ELSE IF env.fail = "call" THEN "call"
    ELSE IF ReportConfigured(self.attrs) /\ env.fail = "read" THEN "read"
    ELSE IF /\ ReportConfigured(self.attrs)
            /\ BannerCheck(self.attrs, env.report).raised
    THEN "banner"
    ELSE IF /\ ReportConfigured(self.attrs)
            /\ SqlcodeCheck(self.attrs, env.report).raised
    THEN "sqlcode"
    ELSE IF env.fail = "fetch" THEN "fetch"
    ELSE IF env.fail = "close" THEN "close"
    ELSE "ok"

\* how far execute got: 0 nothing assigned, 1 options and lists built,
\* 2 connected and procedure called, 3 report stored, 4 DDL cleared,
\* 5 DDL stored and flag set
Stage(o) ==
    CASE o \in {"empty", "ssid"} -> 0
      [] o = "connect" -> 1
      [] o \in {"call", "read"} -> 2
      [] o \in {"banner", "sqlcode"} -> 3
      [] o = "fetch" -> 4
      [] OTHER -> 5

\* the flag set before the rows are fetched
FlagStageBeforeFetch == Stage("fetch")
\* the stage from which __executed_at_least_once is True
FlagStage == Stage("ok")

\* for row in self.__ddl_as_array: self.__ddl_as_string += row + '\n'
RECURSIVE DdlString(_)
DdlString(rows) ==
    IF rows = <<>> THEN "" ELSE Head(rows) \o "\n" \o DdlString(Tail(rows))

\* DB2ALOC left as the caller set it
SsidOptionsButAloc(at, ssid) ==
    [at EXCEPT !["PORT"] = LPAR_SSID[ssid],
               !["DB2SYS"] = ssid,
               !["DB2SERV"] = LPAR \o ssid]
\* self.PORT = LPAR_SSID[LPAR][ssid]; self.DB2SYS = ssid;
\* self.DB2ALOC = ''; self.DB2SERV = LPAR + ssid
SsidOptions(at, ssid) ==
    [at EXCEPT !["PORT"] = LPAR_SSID[ssid],
               !["DB2SYS"] = ssid,
               !["DB2ALOC"] = "",
               !["DB2SERV"] = LPAR \o ssid]

\* the instance once execute(ssid) has assigned PORT, DB2SYS, DB2ALOC and
\* DB2SERV and built the parameter and output lists
Prepared(self, ssid) ==
    IF RequestListIsEmpty(self) \/ ssid \notin DOMAIN LPAR_SSID THEN self
    ELSE
    LET at == SsidOptions(self.attrs, ssid)
        sm == self.same \ {"PORT", "DB2SYS", "DB2ALOC", "DB2SERV"}
    IN [self EXCEPT !.attrs = at,
                    !.same = sm,
                    !.parameter_list = BuildParameterList(at, sm),
                    !.sql_output_list = BuildSqlOutputList(at),
                    !.rpt_output_list = BuildRptOutputList(at)]

\* the rows appended to the list the instance finds on the class
BindsNoList(self, st) == self.own_ddl_as_array
\* self.__ddl_as_array = []: from stage 4 on the instance has a list of its
\* own, which the rows are appended to
BindsOwnList(self, st) == st >= 4 \/ self.own_ddl_as_array

\* the instance after execute has gone on from prepared and ended at o
Executed(self, prepared, env, o) ==
    LET st == Stage(o)
        own == BindsOwnList(self, st)
        fetched == IF st >= 5 THEN env.rows ELSE <<>>
        list == IF own THEN fetched ELSE self.class_ddl_as_array \o fetched
        report == IF st >= 3 /\ ReportConfigured(self.attrs) THEN env.report
                  ELSE self.saved_report
    IN
    IF st = 0 THEN self
    ELSE [prepared EXCEPT
            !.connections = IF st >= 2 THEN @ + 1 ELSE @,
            !.procedure_calls = IF st >= 2 THEN @ + 1 ELSE @,
            !.saved_report = report,
            !.own_ddl_as_array = own,
            !.ddl_as_array = IF st >= 4 /\ own THEN fetched ELSE @,
            !.class_ddl_as_array = IF own THEN @ ELSE @ \o fetched,
            !.ddl_as_string =
                IF st >= 5 THEN DdlString(list)
                ELSE IF st >= 4 THEN "" ELSE @,
            !.results =
                IF st >= 5
                THEN [ddl_as_array |-> list, ddl_as_string |-> DdlString(list),
                      saved_report |-> report]
                ELSE @,
            !.executed_at_least_once = IF st >= FlagStage THEN TRUE ELSE @,
            !.completed = IF st >= 5 THEN TRUE ELSE @]

\* how execute ends
ExecuteResult(self, ssid, env, o) ==
    [(CASE o = "ok" -> Returned("execute", "")
        [] o = "empty" -> Raised("execute", EmptyRequestList)
        [] o = "ssid" -> Raised("execute", "KeyError: '" \o ssid \o "'")
        [] o = "banner" ->
              Raised("execute", BannerCheck(self.attrs, env.report).error)
        [] o = "sqlcode" ->
              Raised("execute", SqlcodeCheck(self.attrs, env.report).error)
        [] OTHER -> Raised("execute", "error raised by " \o o))
     EXCEPT !.outcome = o, !.value = ssid]

\* execute(ssid), the collaborators behaving in one of the ways of envs
Execute(ssid, envs) ==
    /\ connections < MaxConnections
    /\ \E prepared \in {Prepared(Self, ssid)} :
       \E env \in envs :
       \E o \in {ExecuteOutcome(Self, ssid, env)} :
          /\ Becomes(Executed(Self, prepared, env, o))
          /\ last' = ExecuteResult(Self, ssid, env, o)

(***************************************************************************)
(* add_* : each appends one entry to request_list.                         *)
(***************************************************************************)
\* TYPE of the add_* operations that go through __add_object
ObjectType ==
    [add_tablespace |-> "TS", add_table |-> "TB", add_view |-> "VW",
     add_alias |-> "AL", add_index |-> "IX", add_user_defined_type |-> "DT",
     add_user_defined_function |-> "FU", add_stored_procedure |-> "SP",
     add_sequence |-> "SQ", add_trigger |-> "TG", add_synonym |-> "SY"]

AddOperations ==
    DOMAIN ObjectType
    \cup {"add_stogroup", "add_database", "add_sequence_alias", "add_schema"}

\* __add_object(type, qual, name)
add_object(type, qual, name) ==
    "TYPE='" \o type \o "',QUAL='" \o qual \o "',NAME='" \o name \o "';"

\* the text op(qual, name) appends; add_stogroup, add_database and
\* add_schema take a name only
Entry(op, qual, name) ==
    CASE op = "add_stogroup" -> "TYPE='SG',NAME='" \o name \o "';"
      [] op = "add_database" -> "TYPE='DB',NAME='" \o name \o "';"
      [] op = "add_sequence_alias" ->
            "SCH='" \o qual \o "'," \o "SEQ='" \o name \o "';"
      [] op = "add_schema" -> "SCH='" \o name \o "';"
      [] OTHER -> add_object(ObjectType[op], qual, name)

\* the entry put in front of the list
AddedInFront(self, op, qual, name) ==
    [self EXCEPT !.request_list = Entry(op, qual, name) \o @,
                 !.added = Append(@, [op |-> op, qual |-> qual, name |-> name])]
\* self.request_list += entry
Added(self, op, qual, name) ==
    [self EXCEPT !.request_list = @ \o Entry(op, qual, name),
                 !.added = Append(@, [op |-> op, qual |-> qual, name |-> name])]

AddCall(op, qual, name) ==
    /\ Len(added) < MaxAdds
    /\ Becomes(Added(Self, op, qual, name))
    /\ last' = Returned(op, "")

(***************************************************************************)
(* Option changes: the caller assigns attributes of the instance.          *)
(***************************************************************************)
\* self.<a> = v; identical says that v is the very object the attribute is
\* later compared with, which only a string of the same value can be
Assigned(self, a, v, identical) ==
    [self EXCEPT !.attrs = [@ EXCEPT ![a] = v],
                 !.same = IF identical THEN @ \cup {a} ELSE @ \ {a},
                 !.changes = @ + 1]

SetAttribute(a, v, identical) ==
    /\ changes < MaxChanges
    /\ identical => \E i \in DOMAIN ParameterTests :
                       /\ ParameterTests[i].attr = a
                       /\ ComparedWith(i, attrs) = v
                       /\ a # "DB2SERV"
    /\ Becomes(Assigned(Self, a, v, identical))
    /\ last' = Returned("setattr", "")

\* set_all_gen_options(value), set_all_grant_options(value)
SetAll(op, names, value) ==
    /\ changes < MaxChanges
    /\ Becomes([Self EXCEPT
                  !.attrs = [a \in Attributes |->
                                IF a \in Range(names) THEN value ELSE @[a]],
                  !.same = @ \ Range(names),
                  !.changes = @ + 1])
    /\ last' = Returned(op, "")

SetAllGenOptions(value) == SetAll("set_all_gen_options", GenOptions, value)
SetAllGrantOptions(value) == SetAll("set_all_grant_options", GrantOptions, value)

(***************************************************************************)
(* The accessors and the assertions: they change nothing of the instance.  *)
(***************************************************************************)
Reads(result) ==
    /\ last' = result
    /\ UNCHANGED <<attrs, same, parameter_list, request_list,
                   sql_output_list, rpt_output_list, ddl_as_array,
                   ddl_as_string, executed_at_least_once, saved_report,
                   connections, procedure_calls, added, changes, completed,
                   results, own_ddl_as_array, class_ddl_as_array, other>>

GetDdlAsArray ==
    Reads(IF ~executed_at_least_once
          THEN Raised("get_ddl_as_array", NotExecutedDdl)
          ELSE Returned("get_ddl_as_array", DdlAsArray(Self)))

GetDdlAsString ==
    Reads(IF ~executed_at_least_once
          THEN Raised("get_ddl_as_string", NotExecutedDdl)
          ELSE Returned("get_ddl_as_string", ddl_as_string))

GetReportAsString ==
    Reads(IF ~executed_at_least_once
          THEN Raised("get_report_as_string", NotExecutedReport)
          ELSE Returned("get_report_as_string", saved_report))

\* the assertions record what they were called with
AssertTextBetweenTerminators(checklist, term) ==
    Reads([TextBetweenTerminators(executed_at_least_once, ddl_as_string,
                                  checklist, term)
           EXCEPT !.value = [checklist |-> checklist, term |-> term]])

AssertTextInReport(text) ==
    Reads([ReportAssertion("assert_text_in_report", attrs, saved_report,
                           text, TRUE) EXCEPT !.value = text])

\* the test not inverted
AssertTextNotInReportPositive(text) ==
    Reads([ReportAssertion("assert_text_not_in_report", attrs, saved_report,
                           text, TRUE) EXCEPT !.value = text])

\* self.assert_text_in_report(text, False)
AssertTextNotInReport(text) ==
    Reads([ReportAssertion("assert_text_not_in_report", attrs, saved_report,
                           text, FALSE) EXCEPT !.value = text])

(***************************************************************************)
(* The life of one instance.                                               *)
(***************************************************************************)
Reports ==
    {Banner \o "\n",
     Banner \o "\nSQLCODE=-805\n",
     Banner \o "\nSQLCODE = -805\n",
     "ADB2GEN - SQLCODE=-204\n"}

RowLists ==
    {<<"CREATE TABLE A", "COL1;">>, <<"CREATE TABLE B">>}

\* What the collaborators may do during one execute: the call that raises
\* (none, or connect, the procedure call, read_ds, fetchall or close), the
\* report read_ds returns and the rows fetchall returns. A call that raises
\* ends execute, so nothing is delivered after it, and read_ds is called
\* only with RPT_DSNAME set.
Envs ==
    IF ReportConfigured(attrs)
    THEN [fail : {"connect", "call", "read"}, report : {""}, rows : {<<>>}]
         \cup [fail : {"fetch"}, report : Reports, rows : {<<>>}]
         \cup [fail : {"none", "close"}, report : Reports, rows : RowLists]
    ELSE [fail : {"connect", "call", "fetch"}, report : {""}, rows : {<<>>}]
         \cup [fail : {"none", "close"}, report : {""}, rows : RowLists]

\* a subsystem other than the configured one, and one LPAR_SSID does not know
OtherSsid == "DD1A"
UnknownSsid == "ZZZZ"
NoAnswer == [fail |-> "connect", report |-> "", rows |-> <<>>]

\* attribute, value, whether the value is the object of the default
Assignments ==
    {<<"RPT_DSNAME", "", FALSE>>,
     <<"DB2ALOC", "ALOC1", FALSE>>}

Next ==
    \/ AddCall("add_table", "Q1", "T1")
    \/ \E c \in Assignments : SetAttribute(c[1], c[2], c[3])
    \/ SetAllGenOptions("Y")
    \/ SetAllGrantOptions("Y")
    \/ Execute(OtherSsid, Envs)
    \/ Execute(UnknownSsid, {NoAnswer})
    \/ GetDdlAsArray
    \/ GetDdlAsString
    \/ GetReportAsString

Spec == Init /\ [][Next]_vars

(***************************************************************************)
(* The checklist assertion on the DDL an execute call has stored.          *)
(***************************************************************************)
MaxRows == 2

\* the second column of the rows the procedure may return
DdlRowLists ==
    {<<"CREATE TABLE A COL1;CREATE TABLE B COL2;">>,
     <<"CREATE TABLE A COL1;", "CREATE TABLE A COL2;">>,
     <<"CREATE TABLE A", "COL1">>,
     <<>>}

\* the rows a checklist is made of
Sublists ==
    {<<>>,
     <<"CREATE TABLE A", "COL1">>,
     <<"CREATE TABLE A", "COL2">>,
     <<"CREATE TABLE B", "COL2;">>,
     <<"CREATE TABLE C", "COL1">>}

RECURSIVE SeqsUpTo(_, _)
SeqsUpTo(S, n) ==
    IF n = 0 THEN {<<>>}
    ELSE LET shorter == SeqsUpTo(S, n - 1) IN
         shorter \cup {Append(q, x) : q \in shorter, x \in S}

Checklists == SeqsUpTo(Sublists, MaxRows)
Terms == {";", "\n"}

\* the instance after add_table('Q1', 'T1') and execute(OtherSsid), the
\* collaborators behaving as env says
AfterExecute(env) ==
    LET self == Added(Fresh, "add_table", "Q1", "T1") IN
    Executed(self, Prepared(self, OtherSsid), env,
             ExecuteOutcome(self, OtherSsid, env))
AfterExecuteResult(env) ==
    LET self == Added(Fresh, "add_table", "Q1", "T1") IN
    ExecuteResult(self, OtherSsid, env, ExecuteOutcome(self, OtherSsid, env))

InitChecklist ==
    \/ Init
    \/ \E rows \in DdlRowLists :
       \E env \in {[fail |-> "none", report |-> Banner \o "\n", rows |-> rows]} :
          /\ Is(AfterExecute(env))
          /\ other = Fresh
          /\ last = AfterExecuteResult(env)

NextChecklist ==
    \E checklist \in Checklists : \E term \in Terms :
        AssertTextBetweenTerminators(checklist, term)

SpecChecklist == InitChecklist /\ [][NextChecklist]_vars

(***************************************************************************)
(* The report assertions on the report an execute call has stored.         *)
(***************************************************************************)
MaxLines == 2

ReportLines == {"OK", "Job", "ERROR", "ABEND"}
Texts == SeqsUpTo(ReportLines, MaxLines)

\* a report execute stores and accepts, and one it stores and then rejects
StoredReports == {Banner \o "\nJob OK\n", "Job OK\n"}

InitReport ==
    \/ Init
    \/ \E report \in StoredReports :
       \E env \in {[fail |-> "none", report |-> report,
                    rows |-> <<"CREATE TABLE A;">>]} :
          /\ Is(AfterExecute(env))
          /\ other = Fresh
          /\ last = AfterExecuteResult(env)

NextReport ==
    \/ \E text \in Texts : AssertTextInReport(text)
    \/ \E text \in Texts : AssertTextNotInReport(text)
    \/ SetAttribute("RPT_DSNAME", "", FALSE)

SpecReport == InitReport /\ [][NextReport]_vars

(***************************************************************************)
(* The request list under add_* and execute.                               *)
(***************************************************************************)
\* an execute call during which every collaborator answers
Delivered ==
    [fail |-> "none", report |-> Banner \o "\n",
     rows |-> <<"CREATE TABLE A;">>]

NextRequests ==
    \/ \E op \in AddOperations : AddCall(op, "Q1", "T1")
    \/ Execute(OtherSsid, {Delivered, NoAnswer})
    \/ Execute(UnknownSsid, {NoAnswer})

SpecRequests == Init /\ [][NextRequests]_vars

(***************************************************************************)
(* Two instances of the class. The class attributes are shared by both:    *)
(* the strings and the flag cannot be changed in place, the list           *)
(* __ddl_as_array can.                                                     *)
(***************************************************************************)
\* the second instance, with the list of the class
Other == [other EXCEPT !.class_ddl_as_array = class_ddl_as_array]

\* an operation on the second instance, after which it is self
OtherBecomes(self, result) ==
    /\ other' = [self EXCEPT !.class_ddl_as_array = <<>>]
    /\ class_ddl_as_array' = self.class_ddl_as_array
    /\ last' = [result EXCEPT !.op = "other." \o @]
    /\ UNCHANGED <<attrs, same, parameter_list, request_list,
                   sql_output_list, rpt_output_list, ddl_as_array,
                   ddl_as_string, executed_at_least_once, saved_report,
                   connections, procedure_calls, added, changes, completed,
                   results, own_ddl_as_array>>

OtherAddCall(op, qual, name) ==
    /\ Len(other.added) < MaxAdds
    /\ OtherBecomes(Added(Other, op, qual, name), Returned(op, ""))

OtherExecute(ssid, envs) ==
    /\ other.connections < MaxConnections
    /\ \E prepared \in {Prepared(Other, ssid)} :
       \E env \in envs :
       \E o \in {ExecuteOutcome(Other, ssid, env)} :
          OtherBecomes(Executed(Other, prepared, env, o),
                       ExecuteResult(Other, ssid, env, o))

\* what the collaborators deliver to the second instance
DeliveredOther ==
    [fail |-> "none", report |-> Banner \o "\nOther\n",
     rows |-> <<"CREATE VIEW V;">>]
FetchFails == [fail |-> "fetch", report |-> Banner \o "\n", rows |-> <<>>]

NextTwo ==
    \/ AddCall("add_table", "Q1", "T1")
    \/ SetAttribute("DB2AUTH", "USER1", FALSE)
    \/ SetAllGenOptions("Y")
    \/ Execute(OtherSsid, {Delivered, FetchFails})
    \/ OtherAddCall("add_view", "Q2", "V1")
    \/ OtherExecute(DB2_SUBSYSTEM_ID, {DeliveredOther})

SpecTwo == Init /\ [][NextTwo]_vars

(***************************************************************************)
(* Properties of the life of one instance.                                 *)
(***************************************************************************)
Accessors == {"get_ddl_as_array", "get_ddl_as_string", "get_report_as_string"}

\* C1: an accessor raises the not-executed error as long as no execute call
\* has finished its fetch loop and returns a value once one has; the
\* has-executed flag is set exactly when some call has finished that loop.
C1_AccessorsNeedExecution ==
    /\ executed_at_least_once <=> completed
    /\ last.op \in Accessors =>
          IF completed THEN ~last.raised
          ELSE /\ last.raised
               /\ last.error = IF last.op = "get_report_as_string"
                               THEN "adb2re.py: Call execute() before retrieving report"
                               ELSE "adb2re.py: Call execute() before retrieving DDL"

\* an accessor raised after an execute call that failed while fetching
C1_Witness ==
    /\ last.op = "get_ddl_as_string"
    /\ last.raised
    /\ connections > 0
    /\ saved_report # ""

\* C2: execute on an empty request list raises the configuration error and
\* leaves the instance, the connections and the procedure calls as they
\* were; whenever the has-executed flag is set the request list is not empty.
C2_EmptyRequestList ==
    /\ [](executed_at_least_once => request_list # "")
    /\ [][(last'.op = "execute" /\ request_list = "") =>
            /\ last'.raised
            /\ last'.error = "adb2re.py: request_list cannot be empty; use functions like add_table to build the list"
            /\ UNCHANGED <<instance, connections, procedure_calls>>]_vars

\* execute has just failed on an empty request list
C2_Witness ==
    /\ last.op = "execute"
    /\ last.outcome = "empty"
    /\ request_list = ""
    /\ connections = 0

ReportIsValid(report) ==
    /\ Contains(report, "ADB2GEN - Create DDL from catalog info")
    /\ ~Contains(report, "SQLCODE=-805")
    /\ ~Contains(report, "SQLCODE = -805")

\* C3: with RPT_DSNAME set, an execute call returns normally only if the
\* report it read has the banner and neither form of SQLCODE -805; when the
\* report it read is not so, it raises an error that carries the report and
\* leaves the DDL and the has-executed flag as they were.
C3_ReportValidation ==
    [][(last'.op = "execute" /\ attrs["RPT_DSNAME"] # "") =>
          /\ ~last'.raised => ReportIsValid(saved_report')
          /\ (last'.outcome \in {"banner", "sqlcode", "fetch", "close", "ok"}
              /\ ~ReportIsValid(saved_report')) =>
                /\ last'.raised
                /\ Contains(last'.error, saved_report')
                /\ UNCHANGED <<ddl_as_array, ddl_as_string,
                               executed_at_least_once>>]_vars

\* after a success, an execute call has failed on a report with the spaced
\* form of the SQLCODE
C3_Witness ==
    /\ last.op = "execute"
    /\ last.raised
    /\ last.outcome = "sqlcode"
    /\ Contains(saved_report, "SQLCODE = -805")
    /\ executed_at_least_once

\* the statements of the DDL: its segments between the terminators, each
\* with the terminator put back
Statements(ddl, term) ==
    [j \in DOMAIN Split(ddl, term) |-> Split(ddl, term)[j] \o term]
HasAll(stmt, sublist) ==
    \A i \in DOMAIN sublist : Contains(stmt, sublist[i])
Checked == last.op = "assert_text_between_terminators"

\* C4: when assert_text_between_terminators returns normally, every row of
\* the checklist has a statement of the DDL that contains all its items.
C4_PassMeansSatisfied ==
    (Checked /\ ~last.raised) =>
        LET stmts == Statements(ddl_as_string, last.value.term) IN
        \A k \in DOMAIN last.value.checklist :
            \E j \in DOMAIN stmts : HasAll(stmts[j], last.value.checklist[k])

\* a checklist of two rows has passed, its rows found in different statements
C4_Witness ==
    /\ Checked
    /\ ~last.raised
    /\ last.value.term = ";"
    /\ last.value.checklist =
          <<<<"CREATE TABLE B", "COL2;">>, <<"CREATE TABLE A", "COL1">>>>

\* the first statement of the DDL that contains item, 0 when none does
Anchor(stmts, item) ==
    IF \E j \in DOMAIN stmts : Contains(stmts[j], item)
    THEN CHOOSE j \in DOMAIN stmts :
            /\ Contains(stmts[j], item)
            /\ \A h \in 1..(j - 1) : ~Contains(stmts[h], item)
    ELSE 0

C6_NoTerminator ==
    (Checked /\ executed_at_least_once
     /\ ~Contains(ddl_as_string, last.value.term)) =>
        /\ last.raised
        /\ last.error = "adb2re.py: Could not find terminator '"
                        \o last.value.term \o "' in DDL:\n" \o ddl_as_string

\* an empty checklist has failed on a DDL of two lines without a semicolon
C6_Witness ==
    /\ Checked
    /\ executed_at_least_once
    /\ ddl_as_string = "CREATE TABLE A\nCOL1\n"
    /\ last.value.term = ";"
    /\ last.value.checklist = <<>>
    /\ last.raised

\* the name a parameter is rendered under
KeyOf(a) ==
    LET i == CHOOSE j \in DOMAIN ParameterTests : ParameterTests[j].attr = a
    IN ParameterTests[i].key

StartsWith(s, prefix) == SubSeq(s, 1, Len(prefix)) = prefix
EndsWith(s, suffix) == SubSeq(s, Len(s) - Len(suffix) + 1, Len(s)) = suffix

\* C7: the parameter string execute has built starts with DB2SYS and DB2REL,
\* ends with ';' and has a NAME='value' entry for exactly the optional
\* options whose value differs from the default of the class.
C7_ParameterList ==
    (last.op = "execute" /\ last.outcome \notin {"empty", "ssid"}) =>
        /\ StartsWith(parameter_list,
                      "DB2SYS='" \o attrs["DB2SYS"] \o "',DB2REL='"
                      \o attrs["DB2REL"] \o "'")
        /\ EndsWith(parameter_list, ";")
        /\ \A a \in OptionalOptions :
              Contains(parameter_list,
                       "," \o KeyOf(a) \o "='" \o attrs[a] \o "'")
              <=> attrs[a] # ClassDefault(a, DB2_VERSION)

\* C8: the output descriptors execute has built contain their OUTFLAG field
\* and no DSNAME, MEMBER, UNIT or VOLSER field whose value is empty.
C8_OutputLists ==
    (last.op = "execute" /\ last.outcome \notin {"empty", "ssid"}) =>
        /\ StartsWith(sql_output_list,
                      "SQL_OUTFLAG='" \o attrs["SQL_OUTFLAG"] \o "'")
        /\ StartsWith(rpt_output_list,
                      "RPT_OUTFLAG='" \o attrs["RPT_OUTFLAG"] \o "'")
        /\ \A f \in Range(SqlOptional) :
              attrs[f] = "" => ~Contains(sql_output_list, f \o "='")
        /\ \A f \in Range(RptOptional) \cup {"RPT_DSNAME"} :
              attrs[f] = "" => ~Contains(rpt_output_list, f \o "='")

\* the i-th entry of the request list, its semicolon put back
EntryAt(i) == Split(request_list, ";")[i] \o ";"

\* C9: the request list is made of one semicolon-terminated entry for each
\* add_* call made so far, the i-th entry rendering the i-th call, and no
\* step does anything to the list but append to it; execute leaves it alone.
C9_RequestListAppendOnly ==
    /\ [](/\ Len(Split(request_list, ";")) = Len(added) + 1
          /\ Split(request_list, ";")[Len(added) + 1] = ""
          /\ \A i \in DOMAIN added :
                EntryAt(i) = Entry(added[i].op, added[i].qual, added[i].name))
    /\ [][/\ StartsWith(request_list', request_list)
          /\ last'.op = "execute" => request_list' = request_list]_vars

\* after an execute call, a schema was added behind a table
C9_Witness ==
    /\ Len(added) = 2
    /\ added[1].op = "add_table"
    /\ added[2].op = "add_schema"
    /\ request_list = "TYPE='TB',QUAL='Q1',NAME='T1';SCH='T1';"
    /\ executed_at_least_once
    /\ last.op = "add_schema"

ReportChecks == {"assert_text_in_report", "assert_text_not_in_report"}

\* line goes against the check op makes on the stored report
Offends(op, line) ==
    IF op = "assert_text_in_report" THEN ~Contains(saved_report, line)
    ELSE Contains(saved_report, line)

\* C10: with RPT_DSNAME set, assert_text_in_report returns normally exactly
\* when the stored report has every line and assert_text_not_in_report
\* exactly when it has none, the error naming the first line that goes
\* against the check; with RPT_DSNAME empty both raise the configuration
\* error; neither changes the instance.
C10_ReportAssertions ==
    /\ [](last.op \in ReportChecks =>
            IF attrs["RPT_DSNAME"] = ""
            THEN /\ last.raised
                 /\ last.error =
                       "adb2re.py: RPT_DSNAME must be set before calling execute()"
            ELSE /\ ~last.raised <=>
                       \A i \in DOMAIN last.value : ~Offends(last.op, last.value[i])
                 /\ last.raised =>
                       \E i \in DOMAIN last.value :
                          /\ Offends(last.op, last.value[i])
                          /\ \A j \in 1..(i - 1) : ~Offends(last.op, last.value[j])
                          /\ last.error =
                                (IF last.op = "assert_text_in_report"
                                 THEN "adb2re.py Failed to find line '"
                                 ELSE "adb2re.py Unexpectedly found line '")
                                \o last.value[i]
                                \o "' in report. Full report:\n\n"
                                \o saved_report)
    /\ [][last'.op \in ReportChecks =>
            UNCHANGED <<instance, connections, procedure_calls, added>>]_vars

\* assert_text_not_in_report has failed on the first of two lines the
\* stored report has
C10_Witness ==
    /\ last.op = "assert_text_not_in_report"
    /\ last.value = <<"Job", "OK">>
    /\ last.raised
    /\ saved_report = "Job OK\n"
    /\ attrs["RPT_DSNAME"] # ""

\* what an instance shows: its request list, options, built strings, DDL
\* array, DDL string, report and has-executed flag
Shown(self) ==
    <<self.request_list, self.attrs, self.parameter_list,
      self.sql_output_list, self.rpt_output_list, DdlAsArray(self),
      self.ddl_as_string, self.saved_report, self.executed_at_least_once>>
OnOther == SubSeq(last.op, 1, 6) = "other."

\* C11: an operation on one instance leaves what the other instance shows
\* as it was.
C11_InstancesShareNothing ==
    [][IF OnOther' THEN Shown(Self)' = Shown(Self)
       ELSE Shown(Other)' = Shown(Other)]_vars

\* the first instance has executed after the second one did, and each has
\* the DDL it fetched
C11_Witness ==
    /\ last.op = "execute"
    /\ ~last.raised
    /\ other.executed_at_least_once
    /\ DdlAsArray(Other) = <<"CREATE VIEW V;">>
    /\ DdlAsArray(Self) = <<"CREATE TABLE A;">>

\* the first item of the row that stmt lacks
FirstMissing(stmt, row) ==
    CHOOSE i \in DOMAIN row :
        /\ ~Contains(stmt, row[i])
        /\ \A j \in 1..(i - 1) : Contains(stmt, row[j])

\* the row is empty, or no statement has its first item, or the first
\* statement that has it lacks another item
RowFails(stmts, row) ==
    \/ row = <<>>
    \/ Anchor(stmts, row[1]) = 0
    \/ ~HasAll(stmts[Anchor(stmts, row[1])], row)

\* C12: on a DDL with the terminator, each row is decided by the first
\* statement that has its first item: the call returns normally when that
\* statement has all the items of every row; otherwise it raises for the
\* first row that fails, with the position and the value of the first item
\* that statement lacks and the statement, or with the whole row when no
\* statement has its first item.
C12_FirstStatementDecides ==
    (Checked /\ executed_at_least_once
     /\ Contains(ddl_as_string, last.value.term)) =>
        LET stmts == Statements(ddl_as_string, last.value.term)
            checklist == last.value.checklist
        IN
        IF \A k \in DOMAIN checklist : ~RowFails(stmts, checklist[k])
        THEN ~last.raised
        ELSE LET k == CHOOSE h \in DOMAIN checklist :
                        /\ RowFails(stmts, checklist[h])
                        /\ \A g \in 1..(h - 1) : ~RowFails(stmts, checklist[g])
                 row == checklist[k]
             IN
             /\ last.raised
             /\ row # <<>> =>
                   IF Anchor(stmts, row[1]) = 0
                   THEN last.error =
                           "adb2re.py: Could not find any items in DDL from sub-checklist:\n"
                           \o Join(row)
                   ELSE LET stmt == stmts[Anchor(stmts, row[1])]
                            i == FirstMissing(stmt, row)
                        IN Contains(last.error,
                                    "Could not find item#: " \o Str(i)
                                    \o ", string value '" \o row[i]
                                    \o "' in this statement:\n" \o stmt)

\* the row CREATE TABLE A, COL2 has failed on the first statement of
\* CREATE TABLE A COL1;CREATE TABLE B COL2; with item 2
C12_Witness ==
    /\ Checked
    /\ last.raised
    /\ last.value.term = ";"
    /\ last.value.checklist = <<<<"CREATE TABLE A", "COL2">>>>
    /\ ddl_as_string = "CREATE TABLE A COL1;CREATE TABLE B COL2;\n"
    /\ Contains(last.error, "Could not find item#: 2, string value 'COL2'")

\* C13: whenever the has-executed flag is set, the DDL array, the DDL string
\* and the report are those the last execute call that finished has stored.
C13_ResultsOfOneCall ==
    executed_at_least_once =>
        /\ DdlAsArray(Self) = results.ddl_as_array
        /\ ddl_as_string = results.ddl_as_string
        /\ saved_report = results.saved_report

SsidAttributes == {"PORT", "DB2SYS", "DB2ALOC", "DB2SERV"}

\* C14: an execute(ssid) call on a request list that is not empty leaves
\* the request list and every option and output field but PORT, DB2SYS,
\* DB2ALOC and DB2SERV as they were; for an ssid the configuration knows it
\* sets these four to the port of ssid, ssid, '' and LPAR + ssid, and the
\* parameter string it builds has no DB2ALOC entry; for an ssid the
\* configuration does not know it changes no option.
C14_ExecuteFrame ==
    [][(last'.op = "execute" /\ last'.outcome # "empty") =>
          /\ request_list' = request_list
          /\ \A a \in Attributes \ SsidAttributes : attrs'[a] = attrs[a]
          /\ IF last'.outcome = "ssid" THEN attrs' = attrs
             ELSE /\ attrs'["DB2SYS"] = last'.value
                  /\ attrs'["DB2SERV"] = "RS22" \o last'.value
                  /\ attrs'["DB2ALOC"] = ""
                  /\ attrs'["PORT"] = LPAR_SSID[last'.value]
                  /\ ~Contains(parameter_list', "DB2ALOC")]_vars

\* execute has succeeded on an instance whose only change by the caller was
\* the assignment of DB2ALOC
C14_Witness ==
    /\ last.op = "execute"
    /\ last.outcome = "ok"
    /\ changes = 1
    /\ \A a \in Attributes \ SsidAttributes :
          attrs[a] = ClassDefault(a, DB2_VERSION)
    /\ attrs["DB2ALOC"] = ""
    /\ attrs["DB2SYS"] = "DD1A"

=============================================================================
